---- MODULE Spec2Model ----
(***************************************************************************)
(* Model of the download core of eo-basic-example:                         *)
(*   - Downloader (src/download/downloader.py): existing_files,            *)
(*     required_files, old_data, missing, check, update;                   *)
(*   - ArcgisGeomHandler.execute (src/download/process/handlers.py);       *)
(*   - iterative_geo_api_retrieve, delete_data, archive_data,              *)
(*     generate_slug, generate_data_path (src/download/process/util.py);   *)
(*   - Config (src/download/configure/config.py): __post_init__,           *)
(*     _find_duplicate_url, _find_duplicate_filename, find_file_config,    *)
(*     with the validators of the fields that construction checks          *)
(*     (src/download/configure/validate/validators.py).                    *)
(*                                                                         *)
(* File names are sequences of tokens, "." being the token that separates  *)
(* a suffix, so that Path.stem and the "*.*" glob are computed, not        *)
(* assumed.  A sorted list of names is represented by the bag of its       *)
(* elements: two sorted lists are equal exactly when their bags are.       *)
(***************************************************************************)
EXTENDS Integers, Sequences, FiniteSets, TLC

VARIABLES
    entries,          \* Config.entries: the handlers, in declaration order
    archive,          \* Downloader.archive
    store,            \* files under Downloader.raw_directory
    archived,         \* files under Paths.ARCHIVE_DATA_DIR, per timestamp
    stamps,           \* timestamped archive directories that exist
    clock,            \* datetime.now(), in seconds
    data,             \* Downloader.data
    pc,               \* position of the caller / of update()
    calls,            \* number of update() calls started
    download_status,  \* update(): local download_status
    todo,             \* update(): filenames of self.missing() not yet iterated
    missing_file,     \* update(): the loop variable
    iteration,        \* iterative_geo_api_retrieve: local iteration
    retry,            \* iterative_geo_api_retrieve: local retry
    raw_data,         \* iterative_geo_api_retrieve: local raw_data
    retrieved,        \* value returned by iterative_geo_api_retrieve
    outcome,          \* update(): (status, data) returned by the last execute
    log,              \* requests issued by the current retrieve call, with the answers
    entry,            \* what update() found when it was called
    trace,            \* what the current update() call has done so far
    ret,              \* value returned by the last update() call
    prev,             \* what the update() call before the current one did
    upstream,         \* non-empty pages the upstream API holds for a dataset
    config_file,      \* Config.config_file: the raw configuration document
    at,               \* Config.__post_init__: datasets of the document built so far
    urls,             \* _find_duplicate_url: local urls
    zip_urls,         \* _find_duplicate_url: local zip_urls
    warnings,         \* warnings emitted by warnings.warn, in order
    found,            \* outcome of the last find_file_config call
    given,            \* field values handed to a validator or to a constructor
    today,            \* datetime.date.today().year
    verdict,          \* what the validator or the constructor did with them
    attempts,         \* download_missing_files: parameter attempts
    try_attempt,      \* download_missing_files: the loop variable
    main_status,      \* download_missing_files: local status
    main,             \* position of download_missing_files
    declared          \* Content-Type header of the upstream's responses

vars == <<entries, archive, store, archived, stamps, clock, data, pc, calls,
          download_status, todo, missing_file, iteration, retry, raw_data,
          retrieved, outcome, log, entry, trace, ret, prev, upstream,
          config_file, at, urls, zip_urls, warnings, found,
          given, today, verdict, attempts, try_attempt, main_status, main,
          declared>>

\* the state of the construction of the Config and of its lookups
construction == <<config_file, at, urls, zip_urls, warnings, found>>

\* the state of the Downloader and of the retrieval it drives
downloader == <<entries, archive, store, archived, stamps, clock, data, pc, calls,
                download_status, todo, missing_file, iteration, retry, raw_data,
                retrieved, outcome, log, entry, trace, ret, prev, upstream>>

\* what a validator is applied to and what it answered
validation == <<given, today, verdict>>

\* the locals of download_missing_files
toplevel == <<attempts, try_attempt, main_status, main>>

\* what neither the Downloader nor the Config writes
outside == <<validation, toplevel, declared>>

----------------------------------------------------------------------------
(* Bounds of the model *)

MaxEntries == 2      \* dataset entries in a configuration document
MaxPages == 2        \* non-empty pages the upstream holds for one dataset
MaxCalls == 2        \* update() calls in one run
MaxHandlers == 3     \* handlers in a Config whose detection passes are run
MaxFolders == 2      \* folder entries in a configuration document
PageSize == 2        \* the offset of a paginated handler_config (at most 2000)

(* Program constants *)

max_retries == 3     \* handlers.py:161, the last argument of the call
max_offset == 2000   \* handlers.py:120, the maximum given to validate_offset

\* Pages up to Horizon are told apart.  The loop of iterative_geo_api_retrieve
\* has no ceiling on iteration and no branch of it reads iteration, raw_data
\* or the requests already made, so the pages past Horizon are one case:
\* there iteration stays at Endless and nothing more is recorded.
Horizon == MaxPages + 1
Endless == Horizon + 1

\* an optional value: None, or Some(x)
None == <<>>
Some(x) == <<x>>
NoFile == <<>>

----------------------------------------------------------------------------
(* Names and paths *)

Dot == "."
DS == "DS_Store"

OutputNames == {<<"a_2019">>, <<"b_2020">>}

Handlers ==
    [file : [folder : {<<"F">>}, file_ext : {<<"parquet">>},
             write_to_disk : BOOLEAN],
     offset : {0, PageSize},
     output_filename : OutputNames]

\* pathlib: PurePath.stem, the name without its last suffix
LastDot(name) ==
    LET S == {i \in DOMAIN name : name[i] = Dot}
    IN IF S = {} THEN 0 ELSE CHOOSE i \in S : \A j \in S : j <= i

Stem(name) ==
    LET i == LastDot(name)
    IN IF 1 < i /\ i < Len(name) THEN SubSeq(name, 1, i - 1) ELSE name

\* glob("**/*.*"): every entry below the root whose name holds a "."
Glob(st) == {p \in st : \E i \in DOMAIN p.name : p.name[i] = Dot}

\* "DS_Store" not in str(path)
NotArtifact(p) ==
    /\ \A i \in DOMAIN p.name : p.name[i] # DS
    /\ \A i \in DOMAIN p.dir : p.dir[i] # DS

Lower(t) == IF t = "F" THEN "f" ELSE IF t = "G" THEN "g" ELSE t

generate_slug(name) == [i \in DOMAIN name |-> Lower(name[i])]

\* a slip: the extension is left out of the file name
generate_data_path_noext(folder, title, ext) ==
    [dir |-> generate_slug(folder), name |-> title]

generate_data_path(folder, title, ext) ==
    [dir |-> generate_slug(folder), name |-> title \o <<Dot>> \o ext]

\* Files the raw-data root may hold before the run
FileUniverse ==
    { [dir |-> <<"f">>, name |-> <<"a_2019", Dot, "parquet">>],
      [dir |-> <<"g">>, name |-> <<"a_2019", Dot, "csv">>],
      [dir |-> <<"f">>, name |-> <<"old_2001", Dot, "parquet">>],
      [dir |-> <<"f">>, name |-> <<Dot, DS>>] }

----------------------------------------------------------------------------
(* Config *)

filenames(h) == {h.output_filename}

IsSeqUpTo(n, S) == UNION {[1..k -> S] : k \in 0..n}

\* a slip: the scan keeps the last match
find_file_config_last(es, filename) ==
    LET S == {i \in DOMAIN es : filename \in filenames(es[i])}
    IN IF S = {} THEN None
       ELSE es[CHOOSE i \in S : \A j \in S : j <= i]

find_file_config(es, filename) ==
    LET S == {i \in DOMAIN es : filename \in filenames(es[i])}
    IN IF S = {} THEN None
       ELSE es[CHOOSE i \in S : \A j \in S : i <= j]

----------------------------------------------------------------------------
(* Downloader: the reconciliation state, recomputed on demand *)

\* sorted([title.stem for title in glob if "DS_Store" not in str(title)])
existing_files(st) ==
    LET V == {p \in Glob(st) : NotArtifact(p)}
        D == {Stem(p.name) : p \in V}
    IN [s \in D |-> Cardinality({p \in V : Stem(p.name) = s})]

\* sorted([filename for entry in entries for filename in entry.filenames])
required_files(es) ==
    LET D == UNION {filenames(es[i]) : i \in DOMAIN es}
    IN [s \in D |-> Cardinality({i \in DOMAIN es : s \in filenames(es[i])})]

old_data(es, st) ==
    {p \in Glob(st) : NotArtifact(p) /\ Stem(p.name) \notin DOMAIN required_files(es)}

missing(es, st) == DOMAIN required_files(es) \ DOMAIN existing_files(st)

check(es, st) == required_files(es) = existing_files(st)

----------------------------------------------------------------------------
\* nothing has run yet
Fresh ==
    /\ archived = {}
    /\ stamps = {}
    /\ clock = 0
    /\ data = <<>>
    /\ calls = 0
    /\ download_status = TRUE
    /\ todo = {}
    /\ missing_file = NoFile
    /\ iteration = 1
    /\ retry = 1
    /\ raw_data = <<>>
    /\ retrieved = [gdf |-> None, status |-> FALSE]
    /\ outcome = None
    /\ log = <<>>
    /\ entry = [check |-> FALSE, store |-> {}, data |-> <<>>, missing |-> {},
                old_data |-> {}, archived |-> {}, stamps |-> {}]
    /\ trace = [executed |-> <<>>, results |-> <<>>, disposed |-> FALSE]
    /\ ret = None
    /\ prev = [ret |-> None, executed |-> <<>>]
    /\ urls = <<>>
    /\ zip_urls = <<>>
    /\ warnings = <<>>
    /\ found = None
    /\ verdict = None
    /\ try_attempt = 0
    /\ main_status = TRUE

\* the year the program runs in
ThisYear == 2026

JSON == "application/json"

\* nothing is handed to a validator
Unvalidated == given = None /\ today = ThisYear

\* update() is called by a caller of the library, not by download_missing_files
Undriven == attempts = 0 /\ main = "absent"

\* the upstream declares the content type of what it sends
JsonUpstream == declared = JSON

\* a Downloader over a Config that has been built; its document is not read
\* again
Start ==
    /\ Fresh
    /\ pc = "idle"
    /\ config_file = <<>>
    /\ at = 0

\* every configuration of up to MaxEntries datasets that leave offset at its
\* default (one unpaged request per dataset), against every store
Init ==
    /\ entries \in IsSeqUpTo(MaxEntries, {h \in Handlers : h.offset = 0})
    /\ archive \in BOOLEAN
    /\ store \in SUBSET FileUniverse
    /\ upstream = MaxPages
    /\ Start
    /\ Unvalidated /\ Undriven /\ JsonUpstream

\* one dataset, paginated or not, nothing on disk, the upstream holding up to
\* MaxPages pages
InitRetrieve ==
    /\ entries \in [1..1 -> Handlers]
    /\ archive = FALSE
    /\ store = {}
    /\ upstream \in 0..MaxPages
    /\ Start
    /\ Unvalidated /\ Undriven /\ JsonUpstream

\* one paginated or unpaged dataset against an upstream that has no last page:
\* it can answer every offset with features
InitEndless ==
    /\ entries \in [1..1 -> Handlers]
    /\ archive = FALSE
    /\ store = {}
    /\ upstream = Endless
    /\ Start
    /\ Unvalidated /\ Undriven /\ JsonUpstream

----------------------------------------------------------------------------

(* util.py: disposal of obsolete files *)

\* a slip: nothing is unlinked
delete_data_none(st, to_delete) == st

delete_data(st, to_delete) == st \ to_delete

\* file.rename(archive_path / file.name) replaces a file of the same name moved
\* before it: of the files that share a name, the one renamed last survives,
\* and glob fixes no order
Survivors(to_archive) ==
    {K \in SUBSET to_archive :
        \A p \in to_archive : Cardinality({q \in K : q.name = p.name}) = 1}

archive_entries(t, K) == {[stamp |-> t, name |-> p.name, from |-> p.dir] : p \in K}

----------------------------------------------------------------------------
(* util.py: iterative_geo_api_retrieve, one request per step *)

Responses == {"error", "notjson", "nofeatures", "empty", "page"}

\* a slip: the first page is skipped
resultOffsetNoShift(offset, it) == offset * it

\* a slip: the pages are counted, not the records
resultOffsetByOne(offset, it) == it - 1

resultOffset(offset, it) == offset * (it - 1)

\* resp.json() of a response that carries features from position off on
ret_json(kind, off) ==
    IF kind = "page" THEN [features |-> <<off>>]
    ELSE IF kind = "empty" THEN [features |-> <<>>]
    ELSE [error |-> "no features"]

HasFeatures(json) == "features" \in DOMAIN json

RECURSIVE Combine(_)
\* gdf = concat of GeoDataFrame.from_features(ret) for ret in raw_data
Combine(pages) ==
    IF pages = <<>> THEN <<>>
    ELSE Combine(SubSeq(pages, 1, Len(pages) - 1)) \o pages[Len(pages)].features

\* a slip: the status flag of get_response_from_url is not looked at
FailedIgnored(kind) == FALSE

\* get_response_from_url returned (None, False)
Failed(kind) == kind = "error"

RetriesExhausted(r) == r = max_retries

\* Content-Type headers an upstream may send; "" stands for no header
ContentTypes ==
    {"", JSON, "text/html", "text/plain", "application/x-unknown"}

\* mimetypes.guess_extension of the media type, its dot stripped; None when
\* the type is not known
guess_extension(mimetype) ==
    IF mimetype = JSON THEN Some("json")
    ELSE IF mimetype = "text/html" THEN Some("html")
    ELSE IF mimetype = "text/plain" THEN Some("txt")
    ELSE None

FILE_TYPE_HANDLER ==
    [e \in {"json", "geojson", "csv", "xlsx", "ods", "xls", "html", "zip", "bin"}
        |-> IF e = "geojson" THEN "json" ELSE IF e = "bin" THEN "zip" ELSE e]

\* util.validate_file of a response that declares content_type
validate_file(ext, content_type) ==
    LET expected_ext == [i \in DOMAIN ext |-> Lower(ext[i])]
        extension == guess_extension(content_type)
    IN IF content_type = "" THEN TRUE
       ELSE IF extension = None THEN TRUE
       ELSE IF extension[1] \notin DOMAIN FILE_TYPE_HANDLER THEN FALSE
       ELSE <<FILE_TYPE_HANDLER[extension[1]]>> = expected_ext

\* util.retrieve_file: the status it returns
retrieve_file(file_ext, kind, content_type) ==
    IF Failed(kind) THEN FALSE
    ELSE validate_file(file_ext, content_type)

\* a slip: the page is fetched through retrieve_file
page_status_validated(file_ext, kind, content_type) ==
    retrieve_file(file_ext, kind, content_type)

\* the status iterative_geo_api_retrieve gets for a page: that of
\* get_response_from_url, which does not look at the content type
page_status(file_ext, kind, content_type) == ~Failed(kind)

\* a slip: the loop goes on to a next page whatever the offset
SinglePassNever(offset) == FALSE

SinglePass(offset) == offset = 0

----------------------------------------------------------------------------
(* Downloader.update *)

\* a slip: the early return is never taken
UpToDateNever(es, st) == FALSE

UpToDate(es, st) == check(es, st)

\* a slip: the status of the last file overwrites the aggregate
\* a slip: one success makes up for the failures
AggregateAny(ds, status) == ds \/ status

AggregateLast(ds, status) == status

Aggregate(ds, status) == IF ~status THEN FALSE ELSE ds

Merge(d, filename, item) ==
    [k \in DOMAIN d \cup {filename} |-> IF k = filename THEN item ELSE d[k]]

NewTrace == [executed |-> <<>>, results |-> <<>>, disposed |-> FALSE]

\* update() is called: the check and, when it fails, the disposal step
UpdateCall ==
    /\ pc = "idle"
    /\ calls < MaxCalls
    /\ calls' = calls + 1
    /\ entry' = [check |-> check(entries, store), store |-> store, data |-> data,
                 missing |-> missing(entries, store),
                 old_data |-> old_data(entries, store),
                 archived |-> archived, stamps |-> stamps]
    /\ prev' = [ret |-> ret, executed |-> trace.executed]
    /\ download_status' = TRUE
    /\ log' = <<>>
    /\ UNCHANGED <<entries, archive, data, missing_file, iteration, retry,
                   raw_data, retrieved, outcome, upstream>>
    /\ UNCHANGED <<construction, outside>>
    /\ IF UpToDate(entries, store)
       THEN /\ pc' = "idle"
            /\ ret' = Some(TRUE)
            /\ trace' = NewTrace
            /\ todo' = {}
            /\ UNCHANGED <<store, archived, stamps, clock>>
       ELSE IF archive
       THEN \E t \in {clock, clock + 1} :
              /\ clock' = t
              /\ IF t \in stamps
                 THEN \* archive_path.mkdir(parents=True): FileExistsError
                      /\ pc' = "crashed"
                      /\ ret' = None
                      /\ trace' = NewTrace
                      /\ todo' = {}
                      /\ UNCHANGED <<store, archived, stamps>>
                 ELSE \E K \in Survivors(old_data(entries, store)) :
                      /\ stamps' = stamps \cup {t}
                      /\ archived' = archived \cup archive_entries(t, K)
                      /\ store' = store \ old_data(entries, store)
                      /\ todo' = missing(entries, store')
                      /\ trace' = [NewTrace EXCEPT !.disposed = TRUE]
                      /\ pc' = "loop"
                      /\ ret' = None
       ELSE /\ store' = delete_data(store, old_data(entries, store))
            /\ todo' = missing(entries, store')
            /\ trace' = [NewTrace EXCEPT !.disposed = TRUE]
            /\ pc' = "loop"
            /\ ret' = None
            /\ UNCHANGED <<archived, stamps, clock>>

\* the loop takes the next missing file and its handler starts to execute
ExecuteStart ==
    /\ pc = "loop"
    /\ \E f \in todo :
         /\ missing_file' = f
         /\ todo' = todo \ {f}
         /\ trace' = [trace EXCEPT !.executed = Append(@, f)]
    /\ iteration' = 1
    /\ retry' = 1
    /\ raw_data' = <<>>
    /\ log' = <<>>
    /\ retrieved' = [gdf |-> None, status |-> FALSE]
    /\ outcome' = None
    /\ pc' = "request"
    /\ UNCHANGED <<entries, archive, store, archived, stamps, clock, data, calls,
                   download_status, entry, ret, prev, upstream>>
    /\ UNCHANGED <<construction, outside>>

Returns(gdf, status) ==
    /\ retrieved' = [gdf |-> gdf, status |-> status]
    /\ pc' = "retrieved"

\* one get_response_from_url of the retrieval and what the loops do with it
Request(kind) ==
    /\ pc = "request"
    /\ kind = "page" => iteration <= upstream
    /\ LET file == find_file_config(entries, missing_file)
           off == resultOffset(file.offset, iteration)
           json == ret_json(kind, off)
       IN /\ log' = IF iteration <= Horizon
                    THEN Append(log, [resultOffset |-> off, kind |-> kind,
                                      iteration |-> iteration])
                    ELSE log
          /\ IF ~page_status(file.file.file_ext, kind, declared)
             THEN Returns(None, FALSE) /\ UNCHANGED <<iteration, retry, raw_data>>
             ELSE IF kind = "notjson"
             THEN /\ pc' = "crashed"
                  /\ UNCHANGED <<iteration, retry, raw_data, retrieved>>
             ELSE IF ~HasFeatures(json)
             THEN IF RetriesExhausted(retry)
                  THEN Returns(None, FALSE) /\ UNCHANGED <<iteration, retry, raw_data>>
                  ELSE /\ retry' = retry + 1
                       /\ pc' = "request"
                       /\ UNCHANGED <<iteration, raw_data, retrieved>>
             ELSE IF json.features = <<>>
             THEN /\ Returns(Some(Combine(raw_data)), TRUE)
                  /\ UNCHANGED <<iteration, retry, raw_data>>
             ELSE /\ raw_data' = IF iteration <= Horizon
                                  THEN Append(raw_data, json)
                                  ELSE raw_data
                  /\ IF SinglePass(file.offset)
                     THEN Returns(Some(Combine(raw_data')), TRUE) /\ UNCHANGED <<iteration, retry>>
                     ELSE /\ iteration' = IF iteration <= Horizon
                                           THEN iteration + 1
                                           ELSE iteration
                          /\ retry' = 1
                          /\ pc' = "request"
                          /\ UNCHANGED retrieved
    /\ UNCHANGED <<entries, archive, store, archived, stamps, clock, data, calls,
                   download_status, todo, missing_file, outcome, entry, trace, ret,
                   prev, upstream>>
    /\ UNCHANGED <<construction, outside>>

\* a slip: a failed execute returns a mapping without the key
execute_nokey(h, r) ==
    IF ~r.status
    THEN [status |-> FALSE, data |-> <<>>]
    ELSE [status |-> TRUE, data |-> [k \in {h.output_filename} |-> r.gdf]]

\* what execute returns, r being what iterative_geo_api_retrieve returned
execute(h, r) ==
    IF ~r.status
    THEN [status |-> FALSE, data |-> [k \in {h.output_filename} |-> None]]
    ELSE [status |-> TRUE, data |-> [k \in {h.output_filename} |-> r.gdf]]

\* a slip: the file is written whatever write_to_disk says
writes_always(h, r) == r.status

\* execute writes the payload to disk
writes(h, r) == r.status /\ h.file.write_to_disk

\* a slip: what a failed execute returned is merged as well
merged_always(d, filename, o) == Merge(d, filename, o.data[filename])

\* update(), lines 119-121: self.data once execute has returned o
merged(d, filename, o) ==
    IF o.status THEN Merge(d, filename, o.data[filename]) ELSE d

\* the rest of execute and of the loop body, once the retrieval has returned
ExecuteReturn ==
    /\ pc = "retrieved"
    /\ LET file == find_file_config(entries, missing_file)
           status == execute(file, retrieved).status
       IN /\ outcome' = Some(execute(file, retrieved))
          /\ store' = IF writes(file, retrieved)
                      THEN store \cup {generate_data_path(file.file.folder,
                                          file.output_filename, file.file.file_ext)}
                      ELSE store
          /\ data' = merged(data, file.output_filename, execute(file, retrieved))
          /\ download_status' = Aggregate(download_status, status)
          /\ trace' = [trace EXCEPT !.results = Append(@, status)]
    /\ pc' = "loop"
    /\ iteration' = 1
    /\ retry' = 1
    /\ raw_data' = <<>>
    /\ log' = <<>>
    /\ UNCHANGED <<entries, archive, archived, stamps, clock, calls, todo,
                   missing_file, retrieved, entry, ret, prev, upstream>>
    /\ UNCHANGED <<construction, outside>>

\* the loop is over: update() returns
UpdateReturn ==
    /\ pc = "loop"
    /\ todo = {}
    /\ ret' = Some(download_status)
    /\ pc' = "idle"
    /\ retrieved' = [gdf |-> None, status |-> FALSE]
    /\ outcome' = None
    /\ UNCHANGED <<entries, archive, store, archived, stamps, clock, data, calls,
                   download_status, todo, missing_file, iteration, retry, raw_data,
                   log, entry, trace, prev, upstream>>
    /\ UNCHANGED <<construction, outside>>

----------------------------------------------------------------------------
(* Config: the two detection passes and the lookup *)

Range(seq) == {seq[i] : i \in DOMAIN seq}

Front(seq) == SubSeq(seq, 1, Len(seq) - 1)

\* type(entry).__name__ of the DownloadHandler subclasses the passes tell apart
Classes == {"ArcgisGeomHandler", "ZipHandler", "CsvHandler"}

Urls == {"https://x/a", "https://x/b"}

\* handlers of any class, with the fields the passes and the lookup read
AnyHandlers == [class : Classes, file : [url : Urls], output_filename : OutputNames]

\* names looked up: the declared ones and one that no handler declares
LookupNames == OutputNames \cup {<<"c_2021">>}

TypeName(h) == h.class

\* a slip: no class is exempt
ExemptNone == {}

\* the classes left out of the duplicate-URL check
Exempt == {"ArcgisGeomHandler"}

Warn(w, kind, value) == Append(w, [kind |-> kind, value |-> value])

\* a slip: one list of URLs for every class that is not exempt
ScanUrlOneList(s, e) ==
    LET url == e.file.url
    IN IF TypeName(e) \notin Exempt
       THEN IF url \in Range(s.urls)
            THEN [s EXCEPT !.warnings = Warn(@, "url", url)]
            ELSE [s EXCEPT !.urls = Append(@, url)]
       ELSE s

\* the body of the loop of _find_duplicate_url, for one entry
ScanUrl(s, e) ==
    LET url == e.file.url
    IN IF TypeName(e) = "ZipHandler"
       THEN IF url \in Range(s.zip_urls)
            THEN [s EXCEPT !.warnings = Warn(@, "zip_url", url)]
            ELSE [s EXCEPT !.zip_urls = Append(@, url)]
       ELSE IF TypeName(e) \notin Exempt
       THEN IF url \in Range(s.urls)
            THEN [s EXCEPT !.warnings = Warn(@, "url", url)]
            ELSE [s EXCEPT !.urls = Append(@, url)]
       ELSE s

RECURSIVE find_duplicate_url(_)
find_duplicate_url(es) ==
    IF es = <<>>
    THEN [urls |-> <<>>, zip_urls |-> <<>>, warnings |-> <<>>]
    ELSE ScanUrl(find_duplicate_url(Front(es)), es[Len(es)])

\* a slip: a filename met again is warned of once only
ScanFilenameOnce(s, filename) ==
    IF filename \in Range(s.filenames)
    THEN IF [kind |-> "filename", value |-> filename] \in Range(s.warnings)
         THEN s
         ELSE [s EXCEPT !.warnings = Warn(@, "filename", filename)]
    ELSE [s EXCEPT !.filenames = Append(@, filename)]

\* the body of the loops of _find_duplicate_filename, for one filename
ScanFilename(s, filename) ==
    IF filename \in Range(s.filenames)
    THEN [s EXCEPT !.warnings = Warn(@, "filename", filename)]
    ELSE [s EXCEPT !.filenames = Append(@, filename)]

\* entry.filenames holds one name, output_filename
RECURSIVE find_duplicate_filename(_)
find_duplicate_filename(es) ==
    IF es = <<>>
    THEN [filenames |-> <<>>, warnings |-> <<>>]
    ELSE ScanFilename(find_duplicate_filename(Front(es)),
                      CHOOSE f \in filenames(es[Len(es)]) : TRUE)

\* __post_init__, line 60
FindDuplicateUrl ==
    /\ pc = "dup_url"
    /\ LET s == find_duplicate_url(entries)
       IN /\ urls' = s.urls
          /\ zip_urls' = s.zip_urls
          /\ warnings' = warnings \o s.warnings
    /\ pc' = "dup_filename"
    /\ UNCHANGED <<entries, archive, store, archived, stamps, clock, data, calls,
                   download_status, todo, missing_file, iteration, retry, raw_data,
                   retrieved, outcome, log, entry, trace, ret, prev, upstream,
                   config_file, at, found>>
    /\ UNCHANGED outside

\* __post_init__, line 61: the Config is built
FindDuplicateFilename ==
    /\ pc = "dup_filename"
    /\ warnings' = warnings \o find_duplicate_filename(entries).warnings
    /\ pc' = "idle"
    /\ UNCHANGED <<entries, archive, store, archived, stamps, clock, data, calls,
                   download_status, todo, missing_file, iteration, retry, raw_data,
                   retrieved, outcome, log, entry, trace, ret, prev, upstream,
                   config_file, at, urls, zip_urls, found>>
    /\ UNCHANGED outside

\* a call of find_file_config on the built Config; None stands for ValueError
FindFileConfig(name) ==
    /\ pc = "idle"
    /\ found' = Some([name |-> name, result |-> find_file_config(entries, name)])
    /\ UNCHANGED <<entries, archive, store, archived, stamps, clock, data, pc, calls,
                   download_status, todo, missing_file, iteration, retry, raw_data,
                   retrieved, outcome, log, entry, trace, ret, prev, upstream,
                   config_file, at, urls, zip_urls, warnings>>
    /\ UNCHANGED outside

----------------------------------------------------------------------------
(* Config.__post_init__: the handlers are built from the document *)

OK == "ok"

Space == " "

Tab == "\t"

Newline == "\n"

\* the characters str.isspace() and str.strip() take for whitespace
Whitespace == {Space, Tab, Newline}

\* utils.empty_value of a string: str.isspace() or of length 0
empty_value(val) == \A i \in DOMAIN val : val[i] \in Whitespace

\* a slip: no string is searched for a space
string_contains_space_never(string) == FALSE

\* utils.string_contains_space
string_contains_space(string) == \E i \in DOMAIN string : string[i] = Space

\* a validator gives OK for the value it returns and the exception it raises
\* otherwise
validate_folder(folder) ==
    IF empty_value(folder) THEN "EmptyValError"
    ELSE IF string_contains_space(folder) THEN "InvalidSpaceError"
    ELSE OK

GEOMETRY_SERVERS == {"ons", "scot"}

validate_server(server) ==
    IF server \notin GEOMETRY_SERVERS THEN "InvalidGeomServerError" ELSE OK

\* a slip: the maximum is not enforced
validate_offset_nomax(offset, maximum) ==
    IF offset < 0 THEN "InvalidValueFormatOrContentError" ELSE OK

\* a slip: the maximum itself is refused
validate_offset_exclusive(offset, maximum) ==
    IF offset < 0 THEN "InvalidValueFormatOrContentError"
    ELSE IF offset >= maximum THEN "InvalidValueFormatOrContentError"
    ELSE OK

validate_offset(offset, maximum) ==
    IF offset < 0 THEN "InvalidValueFormatOrContentError"
    ELSE IF offset > maximum THEN "InvalidValueFormatOrContentError"
    ELSE OK

\* the dispatch table: download method |-> handler class
DOWNLOAD_HANDLERS == [m \in {"arcgis_geom_api"} |-> "ArcgisGeomHandler"]

FolderNames == {<<"F">>, <<"F", Space, "G">>}

\* dataset entries: the valid ones, and those of one name with one thing wrong
Datasets ==
    {d \in [download_method : {"arcgis_geom_api", "zip_api"},
            file_config : [url : {"https://x/a"}, file_ext : {<<"parquet">>},
                           write_to_disk : {TRUE}],
            handler_config : [server : {"ons", "esri"},
                              offset : {-1, 0, max_offset + 1},
                              output_filename : OutputNames]] :
        (IF d.download_method = "arcgis_geom_api" THEN 0 ELSE 1)
        + (IF d.handler_config.server = "ons" THEN 0 ELSE 1)
        + (IF d.handler_config.offset = 0 THEN 0 ELSE 1)
        <= (IF d.handler_config.output_filename = <<"a_2019">> THEN 1 ELSE 0)}

\* the document of n folder entries whose datasets are those of flat, in
\* order, cut[j] of them in the first j folder entries
Document(names, flat, cut) ==
    [j \in DOMAIN names |->
        [folder |-> names[j],
         datasets |-> SubSeq(flat, (IF j = 1 THEN 0 ELSE cut[j - 1]) + 1, cut[j])]]

\* the ways to cut k datasets into n folder entries, empty ones included
Cuts(n, k) ==
    {c \in [1..n -> 0..k] :
        /\ \A j \in 1..n - 1 : c[j] <= c[j + 1]
        /\ n > 0 => c[n] = k
        /\ n = 0 => k = 0}

\* a slip: the folders are gone through last to first
datasets_of_reversed(doc) ==
    LET RECURSIVE rev(_)
        rev(d) ==
            IF d = <<>> THEN <<>>
            ELSE [k \in DOMAIN d[Len(d)].datasets |->
                     [folder |-> d[Len(d)].folder, dataset |-> d[Len(d)].datasets[k]]]
                 \o rev(Front(d))
    IN rev(doc)

\* for folder_config in config_file: for dataset in folder_config["datasets"]
RECURSIVE datasets_of(_)
datasets_of(doc) ==
    IF doc = <<>> THEN <<>>
    ELSE datasets_of(Front(doc)) \o
         [k \in DOMAIN doc[Len(doc)].datasets |->
             [folder |-> doc[Len(doc)].folder, dataset |-> doc[Len(doc)].datasets[k]]]

\* File(folder=..., **file_config), then the constructor of the handler:
\* the first exception raised, or OK
construct(folder, dataset) ==
    IF validate_folder(folder) # OK THEN validate_folder(folder)
    ELSE IF dataset.download_method \notin DOMAIN DOWNLOAD_HANDLERS THEN "KeyError"
    ELSE IF validate_server(dataset.handler_config.server) # OK
    THEN validate_server(dataset.handler_config.server)
    ELSE validate_offset(dataset.handler_config.offset, max_offset)

handler_of(folder, dataset) ==
    [class |-> DOWNLOAD_HANDLERS[dataset.download_method],
     file |-> [folder |-> folder, url |-> dataset.file_config.url,
               file_ext |-> dataset.file_config.file_ext,
               write_to_disk |-> dataset.file_config.write_to_disk],
     server |-> dataset.handler_config.server,
     offset |-> dataset.handler_config.offset,
     output_filename |-> dataset.handler_config.output_filename]

\* where __post_init__ stands once `built` datasets are done
Position(doc, built) ==
    IF built < Len(datasets_of(doc)) THEN "build" ELSE "dup_url"

\* one turn of the inner loop of __post_init__
BuildEntry ==
    /\ pc = "build"
    /\ LET next == datasets_of(config_file)[at + 1]
       IN IF construct(next.folder, next.dataset) # OK
          THEN /\ pc' = "raised"
               /\ UNCHANGED <<entries, at>>
          ELSE /\ entries' = Append(entries, handler_of(next.folder, next.dataset))
               /\ at' = at + 1
               /\ pc' = Position(config_file, at + 1)
    /\ UNCHANGED <<archive, store, archived, stamps, clock, data, calls,
                   download_status, todo, missing_file, iteration, retry, raw_data,
                   retrieved, outcome, log, entry, trace, ret, prev, upstream,
                   config_file, urls, zip_urls, warnings, found>>
    /\ UNCHANGED outside

\* the raw-data root before the run
StoreBefore == {[dir |-> <<"f">>, name |-> <<"old_2001", Dot, "parquet">>]}

\* download_missing_files: a document is read and Config(config_file) begins
InitConfig ==
    /\ \E flat \in IsSeqUpTo(MaxEntries, Datasets) :
       \E n \in 0..MaxFolders :
       \E names \in [1..n -> FolderNames] :
       \E cut \in Cuts(n, Len(flat)) :
          config_file = Document(names, flat, cut)
    /\ entries = <<>>
    /\ at = 0
    /\ pc = Position(config_file, 0)
    /\ archive = FALSE
    /\ store = StoreBefore
    /\ upstream = MaxPages
    /\ Fresh
    /\ Unvalidated /\ Undriven /\ JsonUpstream

\* a Config whose entries hold handlers of any class, at the point where
\* __post_init__ has built them
InitDetect ==
    /\ entries \in IsSeqUpTo(MaxHandlers, AnyHandlers)
    /\ archive = FALSE
    /\ store = {}
    /\ upstream = 0
    /\ Fresh
    /\ Unvalidated /\ Undriven /\ JsonUpstream
    /\ pc = "dup_url"
    /\ config_file = <<>>
    /\ at = Len(entries)

NextDetect ==
    \/ FindDuplicateUrl
    \/ FindDuplicateFilename
    \/ \E name \in LookupNames : FindFileConfig(name)

SpecDetect == InitDetect /\ [][NextDetect]_vars

----------------------------------------------------------------------------
(* The validators of a handler's fields.  Here a string is the sequence of  *)
(* its characters, so that split, strip and int are computed.               *)

MaxYears == 3        \* year values joined in one output_filename

min_year == 1990

Underscore == "_"

Hyphen == "-"

Digits == <<"0", "1", "2", "3", "4", "5", "6", "7", "8", "9">>

IsDigit(c) == \E d \in 0..9 : Digits[d + 1] = c

DigitValue(c) == CHOOSE d \in 0..9 : Digits[d + 1] = c

RECURSIVE split(_, _)
\* str.split(symbol), symbol being one character
split(string, symbol) ==
    IF \A i \in DOMAIN string : string[i] # symbol THEN <<string>>
    ELSE LET i == CHOOSE k \in DOMAIN string :
                      /\ string[k] = symbol
                      /\ \A j \in 1..(k - 1) : string[j] # symbol
         IN <<SubSeq(string, 1, i - 1)>>
                \o split(SubSeq(string, i + 1, Len(string)), symbol)

RECURSIVE strip(_)
\* str.strip()
strip(string) ==
    IF string # <<>> /\ string[1] \in Whitespace THEN strip(Tail(string))
    ELSE IF string # <<>> /\ string[Len(string)] \in Whitespace
    THEN strip(Front(string))
    ELSE string

RECURSIVE decimal(_)
decimal(digits) ==
    IF digits = <<>> THEN 0
    ELSE 10 * decimal(Front(digits)) + DigitValue(digits[Len(digits)])

\* int(string): surrounding whitespace and one sign are allowed, then digits
\* only; None stands for ValueError.  (Digits grouped by underscores cannot
\* reach it: its caller has split the string at the underscore.)
int(string) ==
    LET s == strip(string)
        signed == s # <<>> /\ s[1] \in {"+", "-"}
        digits == IF signed THEN Tail(s) ELSE s
    IN IF digits = <<>> \/ \E i \in DOMAIN digits : ~IsDigit(digits[i])
       THEN None
       ELSE Some(IF signed /\ s[1] = "-" THEN 0 - decimal(digits)
                 ELSE decimal(digits))

\* a slip: no year is too early
validate_year_nofloor(year, curr_year) ==
    int(year) # None /\ int(year)[1] <= curr_year

\* utils.validate_year
validate_year(year, curr_year) ==
    int(year) # None /\ min_year <= int(year)[1] /\ int(year)[1] <= curr_year

\* utils.string_contains_year
string_contains_year(string, curr_year) ==
    LET year_values == split(string, Underscore)[2]
    IN \A i \in DOMAIN split(year_values, Hyphen) :
          validate_year(split(year_values, Hyphen)[i], curr_year)

\* utils.invalid_symbol_count
invalid_symbol_count(string, symbol, occurences) ==
    Len(split(string, symbol)) # occurences + 1

\* what a validator does: it raises an exception or it returns a value
Raise(kind) == [error |-> kind, value |-> <<>>]

Return(value) == [error |-> OK, value |-> value]

validate_output_filename(filename, curr_year) ==
    IF empty_value(filename) THEN Raise("EmptyValError")
    ELSE IF string_contains_space(filename) THEN Raise("InvalidSpaceError")
    ELSE IF invalid_symbol_count(filename, Underscore, 1)
    THEN Raise("InvalidNumberOfSymbolsError")
    ELSE IF ~string_contains_year(filename, curr_year)
    THEN Raise("InvalidYearError")
    ELSE Return(filename)

validate_filename(filename) ==
    IF empty_value(filename) THEN Raise("EmptyValError") ELSE Return(filename)

\* File(**files) and then ArcgisGeomHandler(file=..., **dataset): the validators
\* run in the order of the fields, and the first exception ends the construction
construct_handler(c, curr_year) ==
    IF validate_folder(c.folder) # OK THEN Raise(validate_folder(c.folder))
    ELSE IF validate_filename(c.filename).error # OK
    THEN validate_filename(c.filename)
    ELSE IF validate_server(c.server) # OK THEN Raise(validate_server(c.server))
    ELSE IF validate_offset(c.offset, max_offset) # OK
    THEN Raise(validate_offset(c.offset, max_offset))
    ELSE IF validate_output_filename(c.output_filename, curr_year).error # OK
    THEN validate_output_filename(c.output_filename, curr_year)
    ELSE Return(c)

\* year values as a configuration may spell them
Numerals ==
    {<<"2", "0", "1", "9">>, <<"1", "9", "9", "0">>, <<"1", "9", "8", "9">>,
     <<"2", "0", "2", "6">>, <<"0", "2", "0", "1", "9">>, <<"x">>, <<>>}

RECURSIVE Join(_)
\* "-".join(years)
Join(years) ==
    IF years = <<>> THEN <<>>
    ELSE IF Len(years) = 1 THEN years[1]
    ELSE Join(Front(years)) \o <<Hyphen>> \o years[Len(years)]

Labels ==
    {<<>>, <<"a", Hyphen, "b">>, <<Space>>, <<"a", Space, "b">>,
     <<"a", Tab, "b">>}

Separators == {<<>>, <<Underscore>>, <<Underscore, Underscore>>}

\* output_filename values: a label, underscores, up to MaxYears year values
OutputFilenames ==
    {label \o sep \o Join(years) :
        label \in Labels, sep \in Separators,
        years \in IsSeqUpTo(MaxYears, Numerals)}

\* the values the other validated fields are drawn from
FolderValues == FolderNames \cup {<<"F", Tab, "G">>, <<Newline>>}

FilenameValues ==
    {<<"f">>, <<"f", Space, "g">>, <<"f", Newline>>, <<Tab>>, <<>>}

ServerValues == {"ons", "esri"}

OffsetValues == {-1, 0, PageSize, max_offset, max_offset + 1}

\* a dataset of the document with its folder: every output_filename with the
\* other fields valid, and every value of the other fields with three
\* output_filenames
Given ==
    [folder : {<<"F">>}, filename : {<<"f">>}, server : {"ons"}, offset : {0},
     output_filename : OutputFilenames]
    \cup
    [folder : FolderValues, filename : FilenameValues, server : ServerValues,
     offset : OffsetValues,
     output_filename : {label \o <<Underscore, "2", "0", "1", "9">> :
                           label \in Labels \ {<<>>, <<Space>>}}]

InitValidate ==
    /\ given \in Given
    /\ today \in {ThisYear - 1, ThisYear}
    /\ entries = <<>>
    /\ archive = FALSE
    /\ store = {}
    /\ upstream = 0
    /\ Start
    /\ Undriven /\ JsonUpstream

\* validate_output_filename is called on the output_filename
ValidateOutputFilename ==
    /\ verdict = None
    /\ verdict' = Some([of |-> "validate_output_filename",
                        result |-> validate_output_filename(given.output_filename,
                                                            today)])
    /\ UNCHANGED <<downloader, construction, given, today, toplevel, declared>>

\* the File and the handler of the dataset are constructed
ConstructHandler ==
    /\ verdict = None
    /\ verdict' = Some([of |-> "ArcgisGeomHandler",
                        result |-> construct_handler(given, today)])
    /\ UNCHANGED <<downloader, construction, given, today, toplevel, declared>>

NextValidate ==
    \/ ValidateOutputFilename
    \/ ConstructHandler

SpecValidate == InitValidate /\ [][NextValidate]_vars

----------------------------------------------------------------------------
(* main.py: download_missing_files *)

sleep_seconds == 30

\* download_missing_files(attempts) once Config(config_file) is built:
\* Downloader(config=config) leaves archive at its default
InitMain ==
    /\ entries \in IsSeqUpTo(MaxEntries, {h \in Handlers : h.offset = 0})
    /\ archive = FALSE
    /\ store \in SUBSET FileUniverse
    /\ upstream = MaxPages
    /\ Start
    /\ attempts \in 0..MaxCalls
    /\ main = "for"
    /\ Unvalidated /\ JsonUpstream

\* line 26: the head of the for loop over range(1, attempts + 1)
MainFor ==
    /\ main = "for"
    /\ IF try_attempt < attempts
       THEN /\ try_attempt' = try_attempt + 1
            /\ main' = "update"
       ELSE /\ main' = "after"
            /\ UNCHANGED try_attempt
    /\ UNCHANGED <<downloader, construction, validation, declared, attempts,
                   main_status>>

\* line 27: db.update() is entered
MainUpdate ==
    /\ main = "update"
    /\ calls < try_attempt
    /\ UpdateCall

\* a slip: the loop goes on after a success
Leaves_never(st) == FALSE

\* line 29: the loop is left at a success
Leaves(st) == st

\* lines 27-36: update() has returned
MainResume ==
    /\ main = "update"
    /\ pc = "idle"
    /\ calls = try_attempt
    /\ main_status' = ret[1]
    /\ IF Leaves(ret[1])
       THEN /\ main' = "after"
            /\ UNCHANGED clock
       ELSE /\ main' = "for"
            /\ clock' = clock + sleep_seconds
    /\ UNCHANGED <<entries, archive, store, archived, stamps, data, pc, calls,
                   download_status, todo, missing_file, iteration, retry, raw_data,
                   retrieved, outcome, log, entry, trace, ret, prev, upstream>>
    /\ UNCHANGED <<construction, validation, declared, attempts, try_attempt>>

\* lines 38-42: DownloadError is raised or the function goes on to the rasters
MainEnd ==
    /\ main = "after"
    /\ main' = IF ~main_status THEN "DownloadError" ELSE "vector_done"
    /\ UNCHANGED <<downloader, construction, validation, declared, attempts,
                   try_attempt, main_status>>

NextMain ==
    \/ MainFor
    \/ MainUpdate
    \/ ExecuteStart
    \/ \E kind \in Responses : Request(kind)
    \/ ExecuteReturn
    \/ UpdateReturn
    \/ MainResume
    \/ MainEnd

SpecMain == InitMain /\ [][NextMain]_vars

----------------------------------------------------------------------------
Next ==
    \/ UpdateCall
    \/ ExecuteStart
    \/ \E kind \in Responses : Request(kind)
    \/ ExecuteReturn
    \/ UpdateReturn

Spec == Init /\ [][Next]_vars

\* the run of download_missing_files: the Config is built, then update() is
\* called on a Downloader over it
NextConfig ==
    \/ BuildEntry
    \/ FindDuplicateUrl
    \/ FindDuplicateFilename
    \/ Next

SpecConfig == InitConfig /\ [][NextConfig]_vars

SpecRetrieve == InitRetrieve /\ [][Next]_vars

\* handlers that differ in the extension they expect
ContentHandlers ==
    [file : [folder : {<<"F">>}, file_ext : {<<"parquet">>, <<"json">>},
             write_to_disk : BOOLEAN],
     offset : {0, PageSize},
     output_filename : {<<"a_2019">>}]

\* one dataset against an upstream that declares any content type, or none
InitContent ==
    /\ entries \in [1..1 -> ContentHandlers]
    /\ archive = FALSE
    /\ store = {}
    /\ upstream \in 0..MaxPages
    /\ declared \in ContentTypes
    /\ Start
    /\ Unvalidated /\ Undriven

SpecContent == InitContent /\ [][Next]_vars

\* files the raw-data root may hold when the disposal runs: a required one, two
\* of one name in two folders, an OS artifact and a file without a suffix
DisposalUniverse ==
    { [dir |-> <<"f">>, name |-> <<"a_2019", Dot, "parquet">>],
      [dir |-> <<"f">>, name |-> <<"old_2001", Dot, "parquet">>],
      [dir |-> <<"g">>, name |-> <<"old_2001", Dot, "parquet">>],
      [dir |-> <<"f">>, name |-> <<Dot, DS>>],
      [dir |-> <<"f">>, name |-> <<"notes">>] }

\* a Downloader, archiving or not, over handlers that write what they fetch
InitDispose ==
    /\ entries \in IsSeqUpTo(MaxEntries,
                             {h \in Handlers : h.offset = 0 /\ h.file.write_to_disk})
    /\ archive \in BOOLEAN
    /\ store \in SUBSET DisposalUniverse
    /\ upstream = MaxPages
    /\ Start
    /\ Unvalidated /\ Undriven /\ JsonUpstream

SpecDispose == InitDispose /\ [][Next]_vars

\* every call of get_response_from_url returns (it carries a timeout) and the
\* program goes on running: a step that can be taken is taken
SpecEndless == InitEndless /\ [][Next]_vars /\ WF_vars(Next)

----------------------------------------------------------------------------
(* Vocabulary of the properties *)

\* the set of required filenames: the union of every entry's filenames
RequiredSet(es) == UNION {filenames(es[i]) : i \in DOMAIN es}

\* the set of file stems under the raw-data root, artifact files excluded
ExistingStems(st) == {Stem(p.name) : p \in {q \in Glob(st) : NotArtifact(q)}}

\* no filename is declared twice and no stem is held twice
NoDuplicates(es, st) ==
    /\ \A i, j \in DOMAIN es : es[i].output_filename = es[j].output_filename => i = j
    /\ \A p, q \in {r \in Glob(st) : NotArtifact(r)} : Stem(p.name) = Stem(q.name) => p = q

Times(f, executed) == Cardinality({i \in DOMAIN executed : executed[i] = f})

WritesAll(executed) ==
    \A i \in DOMAIN executed : find_file_config(entries, executed[i]).file.write_to_disk

Returned == pc = "idle" /\ calls >= 1

\* the call did nothing to the store, the archive or the network
NoOpCall ==
    /\ store = entry.store
    /\ archived = entry.archived
    /\ trace.executed = <<>>
    /\ log = <<>>

Retrieving == pc \in {"request", "retrieved"}

Handler == find_file_config(entries, missing_file)

\* the answer of an upstream that holds `upstream` pages and then an empty one
Expected(off) == IF off < upstream * Handler.offset THEN "page" ELSE "empty"

WellBehaved == \A i \in DOMAIN log : log[i].kind = Expected(log[i].resultOffset)

----------------------------------------------------------------------------
(* C1: check() is true exactly when the set of required filenames equals   *)
(* the set of stems under the raw-data root, for every configuration and   *)
(* every store.  Stated of the check() that update() evaluates on entry.   *)
C1_CheckIsSetEquality ==
    calls >= 1 =>
        (entry.check <=> RequiredSet(entries) = ExistingStems(entry.store))

C4_EveryMissingExecutedOnce ==
    calls >= 1 /\ ~entry.check /\ pc \in {"idle", "crashed"} =>
        \A f \in entry.missing : Times(f, trace.executed) = 1

(* C5: whenever check() is false the disposal of every obsolete file is    *)
(* complete before the first execute and the first request of the call,    *)
(* and the disposal step runs also when nothing is obsolete.               *)
C5_DisposalBeforeFetch ==
    /\ Retrieving \/ trace.executed # <<>> =>
          /\ trace.disposed
          /\ entry.old_data \cap store = {}
          /\ archive => \A p \in entry.old_data : \E a \in archived : a.name = p.name
    /\ calls >= 1 /\ ~entry.check /\ ~trace.disposed =>
          pc = "crashed" /\ archive /\ trace.executed = <<>>

C5_Witness ==
    /\ pc = "request" /\ log = <<>> /\ Len(trace.executed) = 1
    /\ entry.old_data # {} /\ trace.disposed

C5_WitnessOnlyMissing ==
    /\ pc = "request" /\ log = <<>> /\ entry.old_data = {} /\ trace.disposed

(* C6: when check() is true on entry, update() returns true at once and    *)
(* changes nothing: no file removed or archived, no execute, no request,   *)
(* the data mapping as it was.                                             *)
C6_UpToDateIsNoOp ==
    calls >= 1 /\ entry.check =>
        /\ pc = "idle"
        /\ ret = Some(TRUE)
        /\ NoOpCall
        /\ stamps = entry.stamps
        /\ data = entry.data
        /\ ~trace.disposed

C6_Witness == Returned /\ entry.check /\ entry.store # {} /\ calls = 2 /\ data # <<>>

(* C7: with offset > 0, against an upstream that answers the first N pages *)
(* with features and the next with none, the retrieval issues exactly N+1  *)
(* requests and returns success with the features of the N pages, in page  *)
(* order, each once.                                                       *)
C7_PaginationTerminates ==
    pc = "retrieved" /\ Handler.offset > 0 /\ WellBehaved =>
        /\ Len(log) = upstream + 1
        /\ retrieved.status
        /\ retrieved.gdf = Some([i \in 1..upstream |-> Handler.offset * (i - 1)])

C7_Witness ==
    /\ pc = "retrieved" /\ Handler.offset > 0 /\ WellBehaved
    /\ upstream >= 2 /\ Len(log) = upstream + 1

(* C8: if all max_retries attempts of a page fail to deliver a features    *)
(* field the retrieval returns (None, false); it never returns a payload   *)
(* with success = false.                                                   *)
C8_AbortReturnsNone ==
    /\ \A k \in 1..Len(log) - max_retries + 1 :
          (\A i \in k..k + max_retries - 1 :
              /\ log[i].kind \notin {"page", "empty"}
              /\ log[i].resultOffset = log[k].resultOffset)
          => pc = "retrieved" /\ retrieved = [gdf |-> None, status |-> FALSE]
    /\ pc = "retrieved" /\ ~retrieved.status => retrieved.gdf = None

(* C9, as claimed: with offset = 0 exactly one request is issued, whatever *)
(* the response holds.                                                     *)
C9_OneRequestAlways ==
    pc \in {"request", "retrieved", "crashed"} /\ missing_file # NoFile =>
        (Handler.offset = 0 => Len(log) <= 1)

(* C9, amended: with offset = 0 only the first page is requested: every    *)
(* request carries resultOffset 0, a request is repeated only after a      *)
(* response without a features field, at most max_retries are issued, and  *)
(* exactly one when the first response fails or carries a features field.  *)
C9_OnePageOnly ==
    pc \in {"request", "retrieved", "crashed"} /\ missing_file # NoFile =>
        (Handler.offset = 0 =>
            /\ Len(log) <= max_retries
            /\ \A i \in DOMAIN log :
                  /\ log[i].resultOffset = 0
                  /\ i < Len(log) => log[i].kind = "nofeatures"
            /\ pc = "request" => \A i \in DOMAIN log : log[i].kind = "nofeatures"
            /\ pc = "retrieved" => Len(log) >= 1)

C9_Witness ==
    /\ pc = "retrieved" /\ Handler.offset = 0 /\ Len(log) = max_retries
    /\ retrieved.status /\ retrieved.gdf = Some(<<0>>)

(* C10: a transport failure on any attempt of any page ends the retrieval  *)
(* at once with (None, false): no retry of that request, no further page,  *)
(* the pages collected so far dropped.                                     *)
C10_TransportFailureAborts ==
    \A i \in DOMAIN log :
        log[i].kind = "error" =>
            /\ i = Len(log)
            /\ pc = "retrieved"
            /\ retrieved = [gdf |-> None, status |-> FALSE]

C10_Witness ==
    /\ pc = "retrieved" /\ Len(log) = 3 /\ log[3].kind = "error"
    /\ log[1].kind = "page" /\ log[2].kind = "nofeatures"

(* C11: the paginated retrieval always terminates: whatever the upstream   *)
(* answers, as long as every single request returns, a retrieval that has  *)
(* started comes to an end.  Stated at its most favourable: an exception   *)
(* raised by the retrieval counts as an end too.                           *)
C11_RetrievalAlwaysEnds ==
    (pc = "request") ~> (pc \in {"retrieved", "crashed"})

(* C12: the mapping returned by execute has exactly one key, the handler's *)
(* output_filename; its value is None when success is false and the        *)
(* payload the retrieval returned when success is true.                    *)
C12_OneKeyAlways ==
    outcome # None =>
        LET o == outcome[1]
            f == Handler.output_filename
        IN /\ DOMAIN o.data = {f}
           /\ o.status <=> retrieved.status
           /\ ~o.status => o.data[f] = None
           /\ o.status => o.data[f] # None /\ o.data[f] = retrieved.gdf

C12_Witness ==
    /\ outcome # None /\ outcome[1].status
    /\ Len(outcome[1].data[Handler.output_filename][1]) = 2

C12_WitnessFailure ==
    /\ outcome # None /\ ~outcome[1].status
    /\ outcome[1].data = [k \in {Handler.output_filename} |-> None]

C13_WitnessNotAsked ==
    /\ pc = "loop" /\ outcome # None /\ outcome[1].status
    /\ ~Handler.file.write_to_disk /\ store = entry.store

(* C14: no upstream response makes the run crash: execute always returns a *)
(* (success, outputs) pair, so no update() call ends by an exception       *)
(* raised while a file is fetched.                                         *)
C14_FetchNeverRaises == ~(pc = "crashed" /\ log # <<>>)

----------------------------------------------------------------------------
(* Vocabulary of the properties on the Config *)

\* the two categories of the duplicate-URL check, and the exempt handlers
Category(h) ==
    IF h.class = "ZipHandler" THEN "zip"
    ELSE IF h.class = "ArcgisGeomHandler" THEN "exempt"
    ELSE "other"

In(cat) == {i \in DOMAIN entries : Category(entries[i]) = cat}

Carrying(cat, u) == {i \in In(cat) : entries[i].file.url = u}

\* occurrences of a URL within a category, beyond the first
Repeats(cat) ==
    Cardinality(In(cat)) - Cardinality({entries[i].file.url : i \in In(cat)})

Warned(kind) == {i \in DOMAIN warnings : warnings[i].kind = kind}

UrlPassDone == pc \in {"dup_filename", "idle"}

(* C17: the duplicate-URL pass warns once for every occurrence of a URL    *)
(* beyond the first within a non-exempt category, so two handlers of one   *)
(* non-exempt category with the same URL give exactly one warning; the     *)
(* pass does not abort and keeps both handlers.                            *)
C17_OneUrlWarning ==
    UrlPassDone =>
        /\ Cardinality(Warned("zip_url")) = Repeats("zip")
        /\ Cardinality(Warned("url")) = Repeats("other")
        /\ Len(entries) = at
        /\ \A cat \in {"zip", "other"} :
              Len(entries) = 2 /\ In(cat) = {1, 2}
                 /\ entries[1].file.url = entries[2].file.url
              => Cardinality(Warned("zip_url") \cup Warned("url")) = 1

C17_Witness ==
    /\ pc = "idle" /\ Len(entries) = 2 /\ In("other") = {1, 2}
    /\ entries[1].file.url = entries[2].file.url
    /\ Cardinality(Warned("url")) = 1

C18_WitnessAcross ==
    /\ pc = "idle" /\ Len(entries) = 2
    /\ In("zip") = {1} /\ In("other") = {2}
    /\ entries[1].file.url = entries[2].file.url
    /\ Warned("zip_url") \cup Warned("url") = {}

(* C19: the duplicate-filename pass warns once per repeated occurrence:    *)
(* the number of its warnings is the number of filenames of all handlers   *)
(* less the number of distinct filenames; construction completes and keeps *)
(* every handler.                                                          *)
C19_FilenameWarningsCount ==
    pc = "idle" =>
        /\ Cardinality(Warned("filename")) =
              Cardinality({<<i, f>> \in (DOMAIN entries) \X LookupNames :
                              f \in filenames(entries[i])})
              - Cardinality(UNION {filenames(entries[i]) : i \in DOMAIN entries})
        /\ Len(entries) = at

C19_Witness ==
    /\ pc = "idle" /\ Len(entries) = 3
    /\ \A i \in 1..3 : entries[i].output_filename = entries[1].output_filename
    /\ Cardinality(Warned("filename")) = 2

(* C20: find_file_config(name) returns the first handler in declaration    *)
(* order whose filenames contain name, fails when no handler declares it,  *)
(* and leaves entries as they are.                                         *)
C20_FirstDeclared ==
    [][found' # found =>
          /\ entries' = entries
          /\ LET r == found'[1]
                 S == {i \in DOMAIN entries : r.name \in filenames(entries[i])}
             IN IF S = {}
                THEN r.result = None
                ELSE \E i \in S : /\ r.result = entries[i]
                                  /\ \A j \in S : i <= j]_vars

C20_Witness ==
    /\ found # None /\ Len(entries) >= 2
    /\ entries[1] # entries[2]
    /\ found[1].name \in filenames(entries[1]) \cap filenames(entries[2])
    /\ found[1].result = entries[1]

C20_WitnessNotFound ==
    /\ found # None /\ entries # <<>> /\ found[1].result = None

----------------------------------------------------------------------------
(* Vocabulary of the properties on the construction *)

\* dataset entries of the folder entries before the j-th
Before(doc, j) ==
    Cardinality({<<i, k>> \in (1..j - 1) \X (1..MaxEntries) :
                    k \in DOMAIN doc[i].datasets})

Total(doc) == Before(doc, Len(doc) + 1)

\* the handler is the one the dataset entry describes
BuiltFrom(h, folder, dataset) ==
    /\ h.class = "ArcgisGeomHandler"
    /\ h.file.folder = folder
    /\ h.file.url = dataset.file_config.url
    /\ h.file.file_ext = dataset.file_config.file_ext
    /\ h.file.write_to_disk = dataset.file_config.write_to_disk
    /\ h.server = dataset.handler_config.server
    /\ h.offset = dataset.handler_config.offset
    /\ h.output_filename = dataset.handler_config.output_filename

Constructed == pc \notin {"build", "dup_url", "dup_filename", "raised"}

\* a dataset entry that names an unknown method or has an invalid field
Invalid(folder, dataset) ==
    \/ dataset.download_method # "arcgis_geom_api"
    \/ folder = <<>> \/ \E i \in DOMAIN folder : folder[i] = " "
    \/ dataset.handler_config.server \notin {"ons", "scot"}
    \/ dataset.handler_config.offset < 0
    \/ dataset.handler_config.offset > 2000

InvalidDocument(doc) ==
    \E j \in DOMAIN doc : \E k \in DOMAIN doc[j].datasets :
        Invalid(doc[j].folder, doc[j].datasets[k])

(* C15: a constructed Config holds exactly one handler per dataset entry   *)
(* of the document, in declaration order: the k-th dataset of the j-th     *)
(* folder entry gives the entry at the position that counts the datasets   *)
(* of the folder entries before it, plus k.                                *)
C15_OneHandlerPerDataset ==
    Constructed =>
        /\ Len(entries) = Total(config_file)
        /\ \A j \in DOMAIN config_file : \A k \in DOMAIN config_file[j].datasets :
              BuiltFrom(entries[Before(config_file, j) + k],
                        config_file[j].folder, config_file[j].datasets[k])

C15_Witness ==
    /\ Constructed /\ Len(config_file) = 2 /\ Len(entries) = 2
    /\ Len(config_file[1].datasets) = 1 /\ Len(config_file[2].datasets) = 1
    /\ entries[1] # entries[2]

C15_WitnessOneFolder ==
    /\ Constructed /\ Len(config_file) = 1 /\ Len(entries) = 2
    /\ entries[1] # entries[2]

(* C16: a document with a dataset entry that names a download method       *)
(* outside the dispatch table or has an invalid field never yields a       *)
(* Config: construction stops with an error, and in that run no request is *)
(* issued, update() is not called and no file is removed or written.       *)
C16_InvalidIsFatal ==
    InvalidDocument(config_file) =>
        /\ pc \in {"build", "raised"}
        /\ Len(entries) < Total(config_file)
        /\ calls = 0 /\ log = <<>> /\ trace.executed = <<>>
        /\ store = StoreBefore /\ archived = {}

C16_Witness ==
    /\ pc = "raised" /\ Len(entries) = 1
    /\ datasets_of(config_file)[2].dataset.handler_config.offset > max_offset

C16_WitnessMethod ==
    /\ pc = "raised"
    /\ datasets_of(config_file)[1].dataset.download_method = "zip_api"

C16_WitnessValidRuns ==
    /\ ~InvalidDocument(config_file) /\ pc = "request" /\ store = {}

----------------------------------------------------------------------------
(* Vocabulary of the validator properties *)

\* the validator or constructor `f` has been applied to the given values
Applied(f) == verdict # None /\ verdict[1].of = f

Result == verdict[1].result

Accepted == Result.error = OK

\* of length 0 or of whitespace only
Blank(string) == \A i \in DOMAIN string : string[i] \in Whitespace

Occurrences(string, c) == Cardinality({i \in DOMAIN string : string[i] = c})

\* what follows the underscore of a name that has one
AfterUnderscore(name) ==
    LET i == CHOOSE k \in DOMAIN name : name[k] = Underscore
    IN SubSeq(name, i + 1, Len(name))

\* the maximal hyphen-free pieces of a string
Tokens(string) ==
    {SubSeq(string, p[1], p[2]) :
        p \in {q \in (1..(Len(string) + 1)) \X (0..Len(string)) :
                 /\ q[1] <= q[2] + 1
                 /\ q[1] = 1 \/ string[q[1] - 1] = Hyphen
                 /\ q[2] = Len(string) \/ string[q[2] + 1] = Hyphen
                 /\ \A k \in q[1]..q[2] : string[k] # Hyphen}}

\* the token denotes an integer from 1990 to the year `year`
YearInRange(token, year) ==
    int(token) # None /\ int(token)[1] \in min_year..year

\* the token is a year from 1990 to the year `year` written with four digits
FourDigitYear(token, year) ==
    /\ Len(token) = 4
    /\ \A i \in DOMAIN token : IsDigit(token[i])
    /\ decimal(token) \in min_year..year

\* the exception the first failing check of an output_filename stands for
ExpectedKind(name, year) ==
    IF Blank(name) THEN "EmptyValError"
    ELSE IF Occurrences(name, Space) > 0 THEN "InvalidSpaceError"
    ELSE IF Occurrences(name, Underscore) # 1 THEN "InvalidNumberOfSymbolsError"
    ELSE IF \E t \in Tokens(AfterUnderscore(name)) : ~YearInRange(t, year)
    THEN "InvalidYearError"
    ELSE OK

----------------------------------------------------------------------------
C21_WitnessSpace ==
    /\ Applied("validate_output_filename")
    /\ given.output_filename = <<"a", Space, "b", Underscore, "2", "0", "1", "9">>
    /\ Result.error = "InvalidSpaceError"

C21_WitnessSeparator ==
    /\ Applied("validate_output_filename")
    /\ given.output_filename = <<"a", Hyphen, "b", "2", "0", "1", "9">>
    /\ Result.error = "InvalidNumberOfSymbolsError"

C21_WitnessYear ==
    /\ Applied("validate_output_filename")
    /\ given.output_filename = <<"a", Hyphen, "b", Underscore, "1", "9", "8", "9">>
    /\ Result.error = "InvalidYearError"

\* C22: every output_filename that the construction of a handler accepts has,
\* after its one underscore, either one year of four digits from 1990 to the
\* current year or two such years joined by a hyphen.
C22_YearOrPair ==
    Applied("ArcgisGeomHandler") /\ Accepted =>
        LET name == given.output_filename
        IN /\ Occurrences(name, Underscore) = 1
           /\ Occurrences(AfterUnderscore(name), Hyphen) <= 1
           /\ \A t \in Tokens(AfterUnderscore(name)) : FourDigitYear(t, today)

\* the same fields are accepted with some offset
ValidButOffset ==
    \E o \in OffsetValues :
        construct_handler([given EXCEPT !.offset = o], today).error = OK

\* C23: a constructed ArcgisGeomHandler has 0 <= offset <= 2000: an offset
\* below 0 or above 2000 makes the construction fail, and fields that are
\* accepted with any offset are accepted with 0 and with 2000.
C23_OffsetInRange ==
    Applied("ArcgisGeomHandler") =>
        /\ Accepted => Result.value.offset \in 0..2000
        /\ given.offset < 0 \/ given.offset > 2000 => ~Accepted
        /\ ValidButOffset /\ given.offset \in 0..2000 => Accepted

\* a handler is constructed with offset 2000
C23_Witness ==
    /\ Applied("ArcgisGeomHandler")
    /\ Accepted
    /\ given.offset = 2000

\* a handler is constructed with offset 0
C23_WitnessZero ==
    /\ Applied("ArcgisGeomHandler")
    /\ Accepted
    /\ given.offset = 0

\* offset 2001 alone makes the construction fail
C23_WitnessAbove ==
    /\ Applied("ArcgisGeomHandler")
    /\ ValidButOffset
    /\ given.offset = 2001
    /\ Result.error = "InvalidValueFormatOrContentError"

\* the string has a space, a tab or a newline in it
HasWhitespace(string) == \E i \in DOMAIN string : string[i] \in Whitespace

\* C24 (as claimed): in every handler that construction accepts, the folder,
\* the output_filename and the filename contain no space, tab or newline.
C24_NoWhitespace ==
    Applied("ArcgisGeomHandler") /\ Accepted =>
        /\ ~HasWhitespace(given.folder)
        /\ ~HasWhitespace(given.output_filename)
        /\ ~HasWhitespace(given.filename)

\* C24 (amended): in every handler that construction accepts, the folder and
\* the output_filename contain no space character, and the folder, the
\* output_filename and the filename are neither empty nor made of whitespace
\* only.
C24_NoSpaceNotBlank ==
    Applied("ArcgisGeomHandler") /\ Accepted =>
        /\ Occurrences(given.folder, Space) = 0
        /\ Occurrences(given.output_filename, Space) = 0
        /\ ~Blank(given.folder)
        /\ ~Blank(given.output_filename)
        /\ ~Blank(given.filename)

\* a handler is constructed although its folder and its output_filename hold a
\* tab
C24_Witness ==
    /\ Applied("ArcgisGeomHandler")
    /\ Accepted
    /\ Occurrences(given.folder, Tab) > 0
    /\ Occurrences(given.output_filename, Tab) > 0

\* a handler is constructed although its filename holds a space
C24_WitnessFilename ==
    /\ Applied("ArcgisGeomHandler")
    /\ Accepted
    /\ Occurrences(given.filename, Space) > 0

\* a space in the folder makes the construction fail
C24_WitnessRefused ==
    /\ Applied("ArcgisGeomHandler")
    /\ Occurrences(given.folder, Space) > 0
    /\ Result.error = "InvalidSpaceError"

----------------------------------------------------------------------------
(* Vocabulary of the properties of download_missing_files *)

\* the function is past its loop and has not raised DownloadError
PastLoop == main = "vector_done"

RaisedDownloadError == main = "DownloadError"

\* a handler that the current update() call executed reported failure
SomeFailed == \E i \in DOMAIN trace.results : ~trace.results[i]

C25_WitnessRaised ==
    /\ RaisedDownloadError
    /\ SomeFailed
    /\ \E i \in DOMAIN trace.results : trace.results[i]

\* C26: download_missing_files calls update() at most `attempts` times, never
\* calls it again after a call that returned true, and raises DownloadError
\* exactly when it made all `attempts` calls (at least one) and each returned
\* false.
C26_BoundedRetry ==
    /\ [](calls <= attempts)
    /\ [][calls' # calls => calls' = calls + 1 /\ ret # Some(TRUE)]_vars
    /\ [](RaisedDownloadError =>
             calls = attempts /\ attempts >= 1 /\ ret = Some(FALSE))
    /\ [](PastLoop => attempts = 0 \/ ret = Some(TRUE))
    /\ [](main = "after" /\ calls = attempts /\ ret = Some(FALSE)
             => ~main_status)

\* every attempt was used and DownloadError is raised
C26_Witness ==
    /\ RaisedDownloadError
    /\ calls = attempts
    /\ calls > 1

\* the first call succeeded and the attempts left were not used
C26_WitnessFirstSuccess ==
    /\ PastLoop
    /\ calls = 1
    /\ attempts > 1
    /\ trace.executed # <<>>

----------------------------------------------------------------------------
\* the output_filenames in ascending order
SortedNames == <<<<"a_2019">>, <<"b_2020">>>>

Rank(f) == CHOOSE i \in DOMAIN SortedNames : SortedNames[i] = f

\* C27: within an update() call the filenames for which execute is invoked
\* come in ascending order.
C27_AscendingOrder ==
    \A i, j \in DOMAIN trace.executed :
        i < j => Rank(trace.executed[i]) <= Rank(trace.executed[j])

----------------------------------------------------------------------------
\* the content type the upstream declares maps to another extension category
\* than the one the handler expects, or to none that is supported
Mismatch == ~validate_file(Handler.file.file_ext, declared)

\* the body of the response is JSON with a features field
Page(kind) == kind \in {"page", "empty"}

C28_WitnessUndeclared ==
    /\ pc = "retrieved"
    /\ retrieved.status
    /\ declared = ""
    /\ \E i \in DOMAIN log : log[i].kind = "page"

----------------------------------------------------------------------------
\* the requests of the current retrieval for the page of request i, up to i
AttemptNo(i) ==
    Cardinality({j \in 1..i : log[j].iteration = log[i].iteration})

\* the response arrived and its body has no features field
Lacks(kind) == kind \in {"nofeatures", "notjson"}

\* C29: at most max_retries requests are issued for a page; a response that
\* arrives without a features field is retried (unless it was the
\* max_retries-th for its page), the first response with a features field
\* ends the requests for its page, and, all responses arriving, the call
\* fails exactly when max_retries consecutive responses for one page lack the
\* field.
C29_RetryCeiling ==
    /\ \A i \in DOMAIN log : AttemptNo(i) <= max_retries
    /\ \A i \in DOMAIN log :
          Lacks(log[i].kind) /\ AttemptNo(i) < max_retries =>
              \/ i < Len(log) /\ log[i + 1].iteration = log[i].iteration
              \/ i = Len(log) /\ pc = "request"
    /\ \A i \in DOMAIN log :
          Page(log[i].kind) /\ i < Len(log) =>
              log[i + 1].iteration # log[i].iteration
    /\ (\A i \in DOMAIN log : log[i].kind # "error") =>
          (pc = "retrieved" /\ ~retrieved.status
             <=> /\ log # <<>>
                 /\ Lacks(log[Len(log)].kind)
                 /\ AttemptNo(Len(log)) = max_retries)

\* the k-th page of a retrieval is the one requested at iteration k
PageNo(i) == log[i].iteration

\* C30: every request for the k-th page carries resultOffset = offset * (k - 1),
\* a retry carries the offset of the request before it, the request after an
\* accepted page carries that page's offset plus `offset`, and the first
\* request carries 0; with offset > 0 no accepted page is requested again.
C30_OffsetProgression ==
    /\ \A i \in DOMAIN log :
          log[i].resultOffset = Handler.offset * (PageNo(i) - 1)
    /\ log # <<>> => log[1].resultOffset = 0 /\ PageNo(1) = 1
    /\ \A i \in 1..(Len(log) - 1) :
          IF log[i].kind = "page"
          THEN /\ PageNo(i + 1) = PageNo(i) + 1
               /\ log[i + 1].resultOffset = log[i].resultOffset + Handler.offset
          ELSE /\ PageNo(i + 1) = PageNo(i)
               /\ log[i + 1].resultOffset = log[i].resultOffset
    /\ \A i, j \in DOMAIN log :
          i < j /\ log[i].kind = "page" /\ Handler.offset > 0 =>
              log[j].resultOffset > log[i].resultOffset

\* the third page is requested, after a retry of the second
C30_Witness ==
    /\ \E i \in DOMAIN log : PageNo(i) = 3 /\ log[i].resultOffset = 2 * PageSize
    /\ \E i \in DOMAIN log : PageNo(i) = 2 /\ AttemptNo(i) = 2

----------------------------------------------------------------------------
\* the execute under way has returned to update(), which has not yet looked
\* at what it returned
ExecuteDone == pc = "retrieved"

\* C31: the data mapping only ever holds successful results.  It starts
\* empty; every value in it is a payload, never absent; a key enters it, or
\* its value changes, only when the execute of that filename succeeds, the
\* value being the payload retrieved; a failed execute leaves the mapping as
\* it was; no key ever leaves it.
C31_DataHoldsSuccesses ==
    /\ [](\A k \in DOMAIN data : data[k] # None)
    /\ [](calls = 0 => data = <<>>)
    /\ [][\A k \in DOMAIN data' :
             \/ k \in DOMAIN data /\ data'[k] = data[k]
             \/ /\ ExecuteDone
                /\ retrieved.status
                /\ k = Handler.output_filename
                /\ data'[k] = retrieved.gdf]_vars
    /\ [][ExecuteDone /\ ~retrieved.status => data' = data]_vars
    /\ [][DOMAIN data \subseteq DOMAIN data']_vars

\* an execute has failed while the mapping holds the payload of another file,
\* and the failed filename is no key of it
C31_Witness ==
    /\ pc = "loop"
    /\ trace.executed # <<>>
    /\ ~trace.results[Len(trace.results)]
    /\ DOMAIN data # {}
    /\ trace.executed[Len(trace.executed)] \notin DOMAIN data

----------------------------------------------------------------------------
\* the file is one the operating system leaves behind
Artifact(p) == ~NotArtifact(p)

\* the disposal step of the current update() call has finished
Disposed == calls >= 1 /\ trace.disposed

\* C32: the disposal step removes exactly the obsolete files: no file whose
\* stem is required and no OS artifact is removed, and once it has finished
\* every non-artifact file left over from before the call has a required stem.
C32_ExactlyObsolete ==
    Disposed =>
        /\ \A p \in entry.store :
              Stem(p.name) \in RequiredSet(entries) \/ Artifact(p) => p \in store
        /\ \A p \in entry.store \cap store :
              Artifact(p) \/ Stem(p.name) \in RequiredSet(entries)

----------------------------------------------------------------------------
\* no filename is declared by two handlers
DeclaredOnce ==
    \A i, j \in DOMAIN entries :
        entries[i].output_filename = entries[j].output_filename => i = j

\* every handler of the Config writes what it fetches
AllWrite == \A i \in DOMAIN entries : entries[i].file.write_to_disk

\* C33: if no filename is declared by two handlers, every handler has
\* write_to_disk = true and every execute of an update() call succeeded, then
\* check() is true when the call returns.
C33_Converges ==
    Returned /\ DeclaredOnce /\ AllWrite /\ ~SomeFailed => check(entries, store)

----------------------------------------------------------------------------
\* the file p of the store is held by the archive directory of the current
\* call under its own name
Archived(p) ==
    \E a \in archived : a.stamp = clock /\ a.name = p.name /\ a.from = p.dir

\* C34: with archive = true, every obsolete file that was in the store when
\* update() started is, once the disposal has run, in the archive directory of
\* that call under its original filename.
C34_NothingLost ==
    archive /\ Disposed => \A p \in entry.old_data : Archived(p)

----------------------------------------------------------------------------
(* main.py: the attempts of download_missing_files over one raw-data root *)

\* file_ext as the Config may give it: validate_file_ext only asks for a
\* value that is not empty, so "parquet" and ".parquet" both pass
Extensions == {<<"parquet">>, <<Dot, "parquet">>}

\* the datasets of the run: written to disk, offset left at its default
Written ==
    [file : [folder : {<<"F">>}, file_ext : Extensions, write_to_disk : {TRUE}],
     offset : {0},
     output_filename : OutputNames]

\* download_missing_files(attempts) for a Config of such datasets
InitAttempts ==
    /\ entries \in IsSeqUpTo(MaxEntries, Written)
    /\ archive = FALSE
    /\ store \in SUBSET {p \in FileUniverse : p.dir = <<"f">>}
    /\ upstream = MaxPages
    /\ Start
    /\ attempts \in 0..MaxCalls
    /\ main = "for"
    /\ Unvalidated /\ JsonUpstream

SpecAttempts == InitAttempts /\ [][NextMain]_vars

\* an earlier update() call of the run fetched filename and wrote it to disk
FetchedBefore(filename) ==
    /\ filename \in DOMAIN entry.data
    /\ find_file_config(entries, filename).file.write_to_disk

\* where execute wrote the file
WrittenPath(filename) ==
    LET h == find_file_config(entries, filename)
    IN generate_data_path(h.file.folder, h.output_filename, h.file.file_ext)

\* C35: within an update() call of the retry loop, a file that an earlier call
\* fetched and wrote to disk is still in the store and is not executed again.
C35_NoRefetch ==
    \A filename \in DOMAIN required_files(entries) :
        calls >= 1 /\ FetchedBefore(filename)
            => /\ WrittenPath(filename) \in store
               /\ filename \notin Range(trace.executed)
====
